---------------------------- MODULE Spec2Model ----------------------------
(***************************************************************************)
(* A model of src/app.py, the word-cloud dashboard: the colour helpers,    *)
(* the randomised frequency assignment, the snapshot store and the script  *)
(* that the UI framework re-runs top to bottom on every user interaction.  *)
(*                                                                         *)
(* Strings that the code parses (hex colours, the word text, snapshot      *)
(* names) are sequences of one-character strings, so that parsing,         *)
(* stripping and formatting are computed and not assumed.                  *)
(***************************************************************************)
EXTENDS Integers, Sequences, FiniteSets, TLC

VARIABLES
    \* ---- st.session_state and the persisted file -----------------------
    active_config,   \* st.session_state["active_config"]
    saved_configs,   \* st.session_state["saved_configs"]
    variations,      \* st.session_state["variations"]
    color_stops,     \* st.session_state["color_stops"]
    disk,            \* contents of SAVE_FILE
    \* ---- state the UI framework keeps between two runs of the script ----
    uploaded_file,   \* the file sitting in the "Import Config" uploader
    event,           \* the interaction that caused the last run
    \* ---- what the last run of the script did ---------------------------
    words_list,      \* words_list as parsed by the last run
    messages,        \* st.success / st.error messages shown by the last run
    rendered,        \* the calls of create_wordcloud_image made by the last run
    crashed,         \* the last run ended with an uncaught exception
    interactions,    \* number of user interactions so far in this session
    \* ---- the pure helpers, exercised on their own ----------------------
    hx,              \* colour helpers: the hex string given
    n_in,            \* colour helpers: n_stops given
    hx_out,          \* colour helpers: results of the last call
    fq_words,        \* assign_varied_frequencies: the word list given
    fq_out           \* assign_varied_frequencies: locals and result of the call

appVars   == <<active_config, saved_configs, variations, color_stops, disk,
               uploaded_file, event, words_list, messages, rendered, crashed,
               interactions>>
colorVars == <<hx, n_in, hx_out>>
freqVars  == <<fq_words, fq_out>>
vars      == <<appVars, colorVars, freqVars>>


Range(s) == {s[i] : i \in 1..Len(s)}

SeqsUpTo(S, n) == UNION {[1..k -> S] : k \in 0..n}

(***************************************************************************)
(*                           COLOUR HELPERS                                *)
(***************************************************************************)

LowerHex == <<"0","1","2","3","4","5","6","7","8","9","a","b","c","d","e","f">>
UpperHex == <<"0","1","2","3","4","5","6","7","8","9","A","B","C","D","E","F">>

IsHexDigit(ch) == ch \in Range(LowerHex) \cup Range(UpperHex)

\* int(ch, 16) for one hex digit, either case.
HexVal(ch) ==
    IF ch \in Range(LowerHex)
    THEN (CHOOSE i \in 1..16 : LowerHex[i] = ch) - 1
    ELSE (CHOOSE i \in 1..16 : UpperHex[i] = ch) - 1

\* str.lstrip('#'): every leading '#' is dropped.
RECURSIVE LStripHash(_)
LStripHash(s) ==
    IF s # <<>> /\ Head(s) = "#" THEN LStripHash(Tail(s)) ELSE s

\* The strings hex_to_rgb parses without raising: six hex digits after the
\* leading '#'s.
WellFormedHex(s) ==
    LET d == LStripHash(s)
    IN  Len(d) = 6 /\ \A i \in 1..6 : IsHexDigit(d[i])

hex_to_rgb(hex_color) ==
    LET d == LStripHash(hex_color)
    IN  <<HexVal(d[1]) * 16 + HexVal(d[2]),
          HexVal(d[3]) * 16 + HexVal(d[4]),
          HexVal(d[5]) * 16 + HexVal(d[6])>>

\* A slip on the format: '{:x}', without the zero padding.
FmtX(c) ==
    IF c < 16 THEN <<LowerHex[c + 1]>>
    ELSE <<LowerHex[(c \div 16) + 1], LowerHex[(c % 16) + 1]>>

\* '{:02x}'.format(c): two lowercase digits.
Fmt02x(c) == <<LowerHex[(c \div 16) + 1], LowerHex[(c % 16) + 1]>>

rgb_to_hex(rgb) == <<"#">> \o Fmt02x(rgb[1]) \o Fmt02x(rgb[2]) \o Fmt02x(rgb[3])

\* max(0, int(c * 0.57)) for an 8-bit channel c.  The product is a binary64
\* product: it equals floor(57c/100) for every c in 0..255 except c = 100 and
\* c = 200, where 100*0.57 = 56.99999999999999 and 200*0.57 =
\* 113.99999999999999 truncate one lower.
DarkenChannel(c) ==
    LET exact == (c * 57) \div 100
    IN  IF c \in {100, 200} THEN exact - 1 ELSE exact

derive_start_color(final_color) ==
    LET final_rgb == hex_to_rgb(final_color)
    IN  <<DarkenChannel(final_rgb[1]), DarkenChannel(final_rgb[2]),
          DarkenChannel(final_rgb[3])>>

\* Python's round() of the non-negative rational num/den: to nearest, ties to
\* even.  (For 8-bit channels and 2 <= n_stops <= 11 the binary64 expression of
\* the code rounds to the same integer as the exact quotient.)
PyRound(num, den) ==
    LET q == num \div den
        r == num % den
    IN  IF 2 * r < den THEN q
        ELSE IF 2 * r > den THEN q + 1
        ELSE IF q % 2 = 0 THEN q ELSE q + 1

\* A slip on the parameter: t = i / n_stops.
InterpChannelByN(s, e, i, n_stops) ==
    PyRound(s * n_stops + (e - s) * i, n_stops)

\* start + (end - start) * (i / (n_stops - 1)), rounded; i counts from 0.
InterpChannel(s, e, i, n_stops) ==
    PyRound(s * (n_stops - 1) + (e - s) * i, n_stops - 1)

\* Requires n_stops >= 2: at n_stops = 1 the code divides by zero.
generate_color_stops(final_color, n_stops) ==
    LET start_rgb == derive_start_color(final_color)
        end_rgb   == hex_to_rgb(final_color)
    IN  [k \in 1..n_stops |->
            <<InterpChannel(start_rgb[1], end_rgb[1], k - 1, n_stops),
              InterpChannel(start_rgb[2], end_rgb[2], k - 1, n_stops),
              InterpChannel(start_rgb[3], end_rgb[3], k - 1, n_stops)>>]

(***************************************************************************)
(*                        FREQUENCY ASSIGNMENT                             *)
(***************************************************************************)

NumVariations == 5

EmptyMap == [w \in {} |-> 0]

\* freqs[w] = v on a dict: a new key is added, an existing key is overwritten.
DictPut(freqs, w, v) ==
    [x \in (DOMAIN freqs) \cup {w} |-> IF x = w THEN v ELSE freqs[x]]

\* Python's s[a:b] for 0 <= a <= b: indices beyond the end are clipped.
Slice(s, a, b) ==
    LET hi == IF b < Len(s) THEN b ELSE Len(s)
    IN  IF a >= hi THEN <<>> ELSE SubSeq(s, a + 1, hi)

\* The outcomes of random.shuffle on a copy of words: every arrangement.
Shuffles(words) ==
    LET n == Len(words)
        perms == {p \in [1..n -> 1..n] : \A i, j \in 1..n : p[i] = p[j] => i = j}
    IN  {[i \in 1..n |-> words[p[i]]] : p \in perms}

\* The outcomes of random.choice([1, 2]).
NumBigChoices == {1, 2}

\* The weight ranges of the three tiers: random.randint(lo, lo + 1).
BigLow    == 9
MediumLow == 5
SmallLow  == 1

\* randint(lo, lo + 1): lo plus one random bit.
RandInt(lo, bit) == lo + bit

\* for w in ws: freqs[w] = random.randint(lo, lo + 1), with bits[i] the bit
\* drawn for the i-th word of ws.
RECURSIVE AssignTier(_, _, _, _)
AssignTier(freqs, ws, lo, bits) ==
    IF ws = <<>> THEN freqs
    ELSE AssignTier(DictPut(freqs, Head(ws), RandInt(lo, Head(bits))),
                    Tail(ws), lo, Tail(bits))

\* A slip on the slice: the medium tier starts one position late.
MediumWordsOffByOne(shuffled, num_big) == Slice(shuffled, num_big + 1, num_big + 2)

big_words(shuffled, num_big)    == Slice(shuffled, 0, num_big)
medium_words(shuffled, num_big) == Slice(shuffled, num_big, num_big + 1)
small_words(shuffled, num_big)  == Slice(shuffled, num_big + 1, Len(shuffled))

\* The body of assign_varied_frequencies for a non-empty list, given the
\* outcome of the shuffle, of the choice of num_big and of the weight draws
\* (bits[i] belongs to the word at position i of shuffled).
TieredFreqs(shuffled, num_big, bits) ==
    LET n  == Len(shuffled)
        f1 == AssignTier(EmptyMap, big_words(shuffled, num_big), BigLow,
                         Slice(bits, 0, num_big))
        f2 == AssignTier(f1, medium_words(shuffled, num_big), MediumLow,
                         Slice(bits, num_big, num_big + 1))
    IN  AssignTier(f2, small_words(shuffled, num_big), SmallLow,
                   Slice(bits, num_big + 1, n))

\* Every mapping assign_varied_frequencies(words) can return.
assign_varied_frequencies(words) ==
    IF words = <<>> THEN {EmptyMap}
    ELSE {TieredFreqs(s, nb, bits) :
             s \in Shuffles(words), nb \in NumBigChoices,
             bits \in [1..Len(words) -> {0, 1}]}

\* Every list generate_5_variations(words_list) can return.
generate_5_variations(wl) == [1..NumVariations -> assign_varied_frequencies(wl)]

(***************************************************************************)
(*              THE PURE HELPERS EXERCISED ON THEIR OWN                    *)
(***************************************************************************)

\* Hex strings given to the colour helpers: an optional '#' and three
\* two-digit channels drawn from a sample that has both letter cases.
SamplePairs == {<<"0","0">>, <<"6","4">>, <<"c","8">>, <<"f","f">>,
                <<"d","3">>, <<"D","3">>, <<"0","F">>}
HexPrefixes == {<<>>, <<"#">>}
HexInputs   == {p \o r \o g \o b :
                   p \in HexPrefixes, r \in SamplePairs,
                   g \in SamplePairs, b \in SamplePairs}
MaxN == 6

NoColorCall == [op |-> "none", stops |-> <<>>, hex |-> <<>>]

InitColorIdle == hx = <<>> /\ n_in = 0 /\ hx_out = NoColorCall

CallGenerateColorStops ==
    /\ hx_out.op = "none"
    /\ hx # <<>>
    /\ hx_out' = [op |-> "stops", stops |-> generate_color_stops(hx, n_in),
                  hex |-> <<>>]
    /\ UNCHANGED <<hx, n_in, appVars, freqVars>>

CallRoundTrip ==
    /\ hx_out.op = "none"
    /\ hx # <<>>
    /\ hx_out' = [op |-> "roundtrip", stops |-> <<>>,
                  hex |-> rgb_to_hex(hex_to_rgb(hx))]
    /\ UNCHANGED <<hx, n_in, appVars, freqVars>>

\* Word lists given to assign_varied_frequencies on its own.
WordPool   == {<<"a">>, <<"b">>, <<"c">>, <<"d">>}
MaxFreqLen == 3

NoFreqCall == [done |-> FALSE, shuffled |-> <<>>, num_big |-> 0,
               freqs |-> EmptyMap]

InitFreqIdle == fq_words = <<>> /\ fq_out = NoFreqCall

CallAssignEmpty ==
    /\ ~fq_out.done
    /\ fq_words = <<>>
    /\ fq_out' = [NoFreqCall EXCEPT !.done = TRUE]
    /\ UNCHANGED <<fq_words, appVars, colorVars>>

CallAssign ==
    /\ ~fq_out.done
    /\ fq_words # <<>>
    /\ \E s \in Shuffles(fq_words), nb \in NumBigChoices,
          bits \in [1..Len(fq_words) -> {0, 1}] :
          fq_out' = [done |-> TRUE, shuffled |-> s, num_big |-> nb,
                     freqs |-> TieredFreqs(s, nb, bits)]
    /\ UNCHANGED <<fq_words, appVars, colorVars>>

(***************************************************************************)
(*                      WORD TEXT AND SNAPSHOT NAMES                       *)
(***************************************************************************)

Separators == {",", "\n", ";"}
Whitespace == {" ", "\n", "\t"}

\* str.strip(): leading and trailing whitespace is dropped.
RECURSIVE LStrip(_)
LStrip(s) == IF s # <<>> /\ Head(s) \in Whitespace THEN LStrip(Tail(s)) ELSE s

RECURSIVE RStrip(_)
RStrip(s) ==
    IF s # <<>> /\ s[Len(s)] \in Whitespace
    THEN RStrip(SubSeq(s, 1, Len(s) - 1)) ELSE s

Strip(s) == RStrip(LStrip(s))

\* re.split(r"[,\n;]+", text): the pieces between maximal runs of separators
\* (an empty piece where the text starts or ends with a run).
RECURSIVE SplitFrom(_, _, _, _)
SplitFrom(text, cur, acc, inRun) ==
    IF text = <<>> THEN Append(acc, cur)
    ELSE IF Head(text) \in Separators
         THEN IF inRun THEN SplitFrom(Tail(text), cur, acc, TRUE)
              ELSE SplitFrom(Tail(text), <<>>, Append(acc, cur), TRUE)
         ELSE SplitFrom(Tail(text), Append(cur, Head(text)), acc, FALSE)

ReSplit(text) == SplitFrom(text, <<>>, <<>>, FALSE)

\* [w.strip() for w in temp_words if w.strip()]
RECURSIVE StripNonEmpty(_)
StripNonEmpty(pieces) ==
    IF pieces = <<>> THEN <<>>
    ELSE LET w == Strip(Head(pieces))
         IN  IF w = <<>> THEN StripNonEmpty(Tail(pieces))
             ELSE <<w>> \o StripNonEmpty(Tail(pieces))

ParseWords(words_input) == StripNonEmpty(ReSplit(words_input))

\* "\n".join(words)
RECURSIVE JoinLines(_)
JoinLines(words) ==
    IF words = <<>> THEN <<>>
    ELSE IF Len(words) = 1 THEN Head(words)
    ELSE Head(words) \o <<"\n">> \o JoinLines(Tail(words))

(***************************************************************************)
(*                          PERSISTENCE HELPERS                            *)
(***************************************************************************)

\* SAVE_FILE: absent, not a JSON list, or a list of snapshots.
AbsentFile   == [kind |-> "absent",   data |-> <<>>]
GarbageFile  == [kind |-> "not_list", data |-> <<>>]
ListFile(cs) == [kind |-> "list",     data |-> cs]

load_saved_configs(f) == IF f.kind = "list" THEN f.data ELSE <<>>

\* The file after save_saved_configs(configs): overwritten with the whole list.
save_saved_configs(configs) == ListFile(configs)

(***************************************************************************)
(*                     CONFIGURATIONS AND WIDGET RANGES                    *)
(***************************************************************************)

MinStops      == 3
MaxStops      == 10
MinDim        == 200
MaxDim        == 6000
DefaultStops  == 5
DefaultWidth  == 2000
DefaultHeight == 1600
DefaultColor  == <<"#", "f", "f", "0", "0", "d", "3">>

\* The initial word list of the code has 20 distinct words; the model starts
\* from a list of one word.
DefaultWords  == << <<"a">> >>

Config(c, n, ws, w, h) ==
    [final_color |-> c, n_stops |-> n, words |-> ws, width |-> w, height |-> h]

DefaultConfig ==
    Config(DefaultColor, DefaultStops, DefaultWords, DefaultWidth, DefaultHeight)

ConfigKeys == {"final_color", "n_stops", "words", "width", "height"}

\* dict.get(key, default)
Get(cfg, key, default) == IF key \in DOMAIN cfg THEN cfg[key] ELSE default

\* What the widgets accept as their value= argument; anything else makes the
\* widget call raise.
ColorPickerOk(v) ==
    Len(v) = 7 /\ v[1] = "#" /\ \A i \in 2..7 : IsHexDigit(v[i])
SliderOk(v)      == MinStops <= v /\ v <= MaxStops
NumberInputOk(v) == MinDim <= v /\ v <= MaxDim

(***************************************************************************)
(*                       ONE RUN OF THE SCRIPT                             *)
(*                                                                         *)
(* The UI framework runs the script from its first line to its last on     *)
(* every user interaction.  A run is modelled as the composition of the    *)
(* script's sections, each a function of the session record                *)
(*   ac, saved, vs, stops, disk : session_state and the file               *)
(*   wl, msgs, calls, crashed   : locals and outputs of the run            *)
(* An uncaught exception ends the run: the sections after it do nothing    *)
(* and what was assigned before it stays assigned.                         *)
(***************************************************************************)

Ev(kind, value) == [kind |-> kind, value |-> value]

Msg(kind, arg) == <<kind, arg>>

\* The file uploader: empty, or holding a file that is valid JSON or not.
NoUpload       == [present |-> FALSE, json_ok |-> FALSE, obj |-> [none |-> 0]]
JsonUpload(o)  == [present |-> TRUE,  json_ok |-> TRUE,  obj |-> o]
GarbageUpload  == [present |-> TRUE,  json_ok |-> FALSE, obj |-> [none |-> 0]]

StartRun(S) ==
    [S EXCEPT !.wl = <<>>, !.msgs = {}, !.calls = <<>>, !.crashed = FALSE]

\* Lines 171-236: the sidebar widgets and the update of active_config.  Each
\* widget returns the value the user has just given it, or else its value=
\* argument, which is read from active_config.
WidgetsPhase(S, ev) ==
    LET dColor      == Get(S.ac, "final_color", DefaultColor)
        dStops      == Get(S.ac, "n_stops", DefaultStops)
        final_color == IF ev.kind = "edit_color" THEN ev.value ELSE dColor
        n_stops     == IF ev.kind = "edit_stops" THEN ev.value ELSE dStops
    IN  IF ~ColorPickerOk(dColor) \/ ~SliderOk(dStops)
        THEN [S EXCEPT !.crashed = TRUE]
        ELSE
        LET S1 == [S EXCEPT !.stops = generate_color_stops(final_color, n_stops)]
        IN  IF "words" \notin DOMAIN S.ac
            THEN [S1 EXCEPT !.crashed = TRUE]
            ELSE
            LET words_input  == IF ev.kind = "edit_words" THEN ev.value
                                ELSE JoinLines(S.ac.words)
                dWidth       == Get(S.ac, "width", DefaultWidth)
                dHeight      == Get(S.ac, "height", DefaultHeight)
                cloud_width  == IF ev.kind = "edit_width" THEN ev.value ELSE dWidth
                cloud_height == IF ev.kind = "edit_height" THEN ev.value ELSE dHeight
            IN  IF ~NumberInputOk(dWidth) \/ ~NumberInputOk(dHeight)
                THEN [S1 EXCEPT !.crashed = TRUE, !.wl = ParseWords(words_input)]
                ELSE [S1 EXCEPT
                        !.wl = ParseWords(words_input),
                        !.ac = Config(final_color, n_stops, ParseWords(words_input),
                                      cloud_width, cloud_height)]

\* A slip on the validation: the name is stripped but never tested.
SavePhaseUnchecked(S, ev) ==
    IF S.crashed \/ ev.kind # "save" THEN S
    ELSE LET configs == Append(S.saved, [name |-> Strip(ev.value), config |-> S.ac])
         IN  [S EXCEPT !.saved = configs,
                       !.disk  = save_saved_configs(configs),
                       !.msgs  = @ \cup {Msg("saved", ev.value)}]

\* Lines 243-255: "Save Current Config", with ev.value the text of the
\* "Config Name" input.
SavePhase(S, ev) ==
    IF S.crashed \/ ev.kind # "save" THEN S
    ELSE IF Strip(ev.value) # <<>>
    THEN LET new_saved == [name |-> Strip(ev.value), config |-> S.ac]
             configs   == Append(S.saved, new_saved)
         IN  [S EXCEPT !.saved = configs,
                       !.disk  = save_saved_configs(configs),
                       !.msgs  = @ \cup {Msg("saved", ev.value)}]
    ELSE [S EXCEPT !.msgs = @ \cup {Msg("invalid_name", <<>>)}]

all_names(saved) == [i \in 1..Len(saved) |-> saved[i].name]

\* next((it for it in saved if it["name"] == selected_name), None)
chosen_item(saved, selected_name) ==
    saved[CHOOSE i \in 1..Len(saved) :
            /\ saved[i].name = selected_name
            /\ \A j \in 1..(i - 1) : saved[j].name # selected_name]

\* A slip on the filter: only the first match goes, as list.remove would do.
RECURSIVE WithoutFirstNamed(_, _)
WithoutFirstNamed(saved, selected_name) ==
    IF saved = <<>> THEN <<>>
    ELSE IF Head(saved).name = selected_name THEN Tail(saved)
    ELSE <<Head(saved)>> \o WithoutFirstNamed(Tail(saved), selected_name)

\* [it for it in saved if it["name"] != selected_name]
RECURSIVE WithoutName(_, _)
WithoutName(saved, selected_name) ==
    IF saved = <<>> THEN <<>>
    ELSE IF Head(saved).name # selected_name
         THEN <<Head(saved)>> \o WithoutName(Tail(saved), selected_name)
         ELSE WithoutName(Tail(saved), selected_name)

\* Lines 262-273: "Load Config"; vL is the outcome of generate_5_variations.
LoadHandler(S, selected_name, vL) ==
    LET cfg == chosen_item(S.saved, selected_name).config
    IN  [S EXCEPT !.ac    = cfg,
                  !.stops = generate_color_stops(cfg.final_color, cfg.n_stops),
                  !.vs    = vL,
                  !.msgs  = @ \cup {Msg("loaded", selected_name)}]

\* Lines 275-280: "Delete Config".
DeleteHandler(S, selected_name) ==
    LET configs == WithoutName(S.saved, selected_name)
    IN  [S EXCEPT !.saved = configs,
                  !.disk  = save_saved_configs(configs),
                  !.msgs  = @ \cup {Msg("deleted", selected_name)}]

\* Lines 257-282, with ev.value the name selected in the selectbox.
LoadDeletePhase(S, ev, vL) ==
    IF S.crashed \/ S.saved = <<>> THEN S
    ELSE IF ev.kind = "load" /\ ev.value \in Range(all_names(S.saved))
    THEN LoadHandler(S, ev.value, vL)
    ELSE IF ev.kind = "delete" /\ ev.value \in Range(all_names(S.saved))
    THEN DeleteHandler(S, ev.value)
    ELSE S

\* Lines 295-311: the import, run whenever the uploader holds a file; vI is
\* the outcome of generate_5_variations.  Every exception is caught and
\* reported; what was assigned before it stays assigned.
ImportPhase(S, upl, vI) ==
    IF S.crashed \/ ~upl.present THEN S
    ELSE IF ~upl.json_ok
    THEN [S EXCEPT !.msgs = @ \cup {Msg("import_error", <<>>)}]
    ELSE
    LET imported_config == upl.obj
        S1 == [S EXCEPT !.ac = imported_config]
        failed(T) == [T EXCEPT !.msgs = @ \cup {Msg("import_error", <<>>)}]
    IN  IF \/ "final_color" \notin DOMAIN imported_config
           \/ "n_stops" \notin DOMAIN imported_config
           \/ ~WellFormedHex(imported_config.final_color)
           \/ imported_config.n_stops = 1
        THEN failed(S1)
        ELSE
        LET S2 == [S1 EXCEPT !.stops =
                      generate_color_stops(imported_config.final_color,
                                           imported_config.n_stops)]
        IN  IF "words" \notin DOMAIN imported_config
            THEN failed(S2)
            ELSE [S2 EXCEPT !.vs = vI,
                            !.msgs = @ \cup {Msg("imported", <<>>)}]

\* Lines 331-342: the loop over the variations.  A call is made once its
\* arguments are evaluated (a missing width or height key raises before it);
\* the word-cloud library raises on an empty mapping.
RECURSIVE RenderLoop(_, _, _)
RenderLoop(S, vs, i) ==
    IF i > Len(vs) THEN S
    ELSE IF "width" \notin DOMAIN S.ac \/ "height" \notin DOMAIN S.ac
    THEN [S EXCEPT !.crashed = TRUE]
    ELSE LET call == [frequencies |-> vs[i], width |-> S.ac.width,
                      height |-> S.ac.height]
             S1   == [S EXCEPT !.calls = Append(@, call)]
         IN  IF DOMAIN vs[i] = {}
             THEN [S1 EXCEPT !.crashed = TRUE]
             ELSE RenderLoop(S1, vs, i + 1)

\* Lines 316-365: the main content; vR is the outcome of
\* generate_5_variations for "Regenerate 5 Variations".
MainPhase(S, ev, vR) ==
    IF S.crashed THEN S
    ELSE IF S.wl = <<>>
    THEN [S EXCEPT !.msgs = @ \cup {Msg("no_words", <<>>)}]
    ELSE LET S1 == IF ev.kind = "regenerate"
                   THEN [S EXCEPT !.vs = vR,
                                  !.msgs = @ \cup {Msg("regenerated", <<>>)}]
                   ELSE S
         IN  RenderLoop(S1, S1.vs, 1)

RunScript(S, upl, ev, vL, vI, vR) ==
    MainPhase(
        ImportPhase(
            LoadDeletePhase(SavePhase(WidgetsPhase(StartRun(S), ev), ev), ev, vL),
            upl, vI),
        ev, vR)

(***************************************************************************)
(*                    THE SESSION AS A STATE MACHINE                       *)
(***************************************************************************)

MaxInteractions == 2
MaxSaved        == 3

\* What the user can give the widgets.
AltColor     == <<"#", "0", "0", "6", "4", "c", "8">>
ColorInputs  == {AltColor}
StopInputs   == {MaxStops}
WidthInputs  == {MinDim}
HeightInputs == {MaxDim}
TextInputs   == {<<" ", ",">>, <<"b">>, <<" ", "a", ";", "\n">>}
NameInputs   == {<<>>, <<" ">>, <<"d">>, <<" ", "e", " ">>}

\* Files the user can put in the uploader.
ImportFiles ==
    { JsonUpload(Config(AltColor, MaxStops, << <<"b">> >>, MinDim, MaxDim)),
      JsonUpload(Config(DefaultColor, DefaultStops, <<>>, DefaultWidth, DefaultHeight)),
      JsonUpload([width |-> DefaultWidth, height |-> DefaultHeight]),
      JsonUpload(Config(DefaultColor, DefaultStops, << <<"b">> >>, 100, DefaultHeight)),
      GarbageUpload }

\* What SAVE_FILE can hold when the session starts: nothing, garbage, or a
\* list written by an earlier session.
EarlierStore ==
    << [name |-> <<"d">>,
        config |-> Config(AltColor, MinStops, <<>>, MinDim, DefaultHeight)],
       [name |-> <<"e">>,
        config |-> Config(DefaultColor, DefaultStops, << <<"b">> >>, DefaultWidth, MaxDim)],
       [name |-> <<"d">>,
        config |-> Config(DefaultColor, MaxStops, << <<"a">> >>, DefaultWidth, DefaultHeight)] >>
InitialFiles == {AbsentFile, GarbageFile, ListFile(EarlierStore)}

Session ==
    [ac |-> active_config, saved |-> saved_configs, vs |-> variations,
     stops |-> color_stops, disk |-> disk, wl |-> words_list,
     msgs |-> messages, calls |-> rendered, crashed |-> crashed]

\* The outcomes of the call of generate_5_variations each section makes (a
\* section that does not make the call has the one outcome "no call").
LoadDraws(S, ev) ==
    IF /\ ~S.crashed
       /\ ev.kind = "load"
       /\ ev.value \in Range(all_names(S.saved))
    THEN generate_5_variations(chosen_item(S.saved, ev.value).config.words)
    ELSE {<<>>}

ImportDraws(S, upl) ==
    IF ~S.crashed /\ upl.present /\ upl.json_ok /\ "words" \in DOMAIN upl.obj
    THEN generate_5_variations(upl.obj.words)
    ELSE {<<>>}

RegenDraws(S, ev) ==
    IF ~S.crashed /\ ev.kind = "regenerate" /\ S.wl # <<>>
    THEN generate_5_variations(S.wl)
    ELSE {<<>>}

\* What json.load(uploaded_file) finds.  A file put in the uploader for this
\* run is read from its start.  A file kept from an earlier run was read to
\* its end by that run: the framework hands the script either a new buffer
\* at position 0 or the old one at its end (which is no JSON), depending on
\* its version.
UploadReads(upl) ==
    IF upl.present /\ upl.json_ok /\ upl = uploaded_file
    THEN {upl, [upl EXCEPT !.json_ok = FALSE]}
    ELSE {upl}

Becomes(T, upl, ev, k) ==
    /\ active_config' = T.ac
    /\ saved_configs' = T.saved
    /\ variations'    = T.vs
    /\ color_stops'   = T.stops
    /\ disk'          = T.disk
    /\ words_list'    = T.wl
    /\ messages'      = T.msgs
    /\ rendered'      = T.calls
    /\ crashed'       = T.crashed
    /\ uploaded_file' = upl
    /\ event'         = ev
    /\ interactions'  = k

\* One user interaction: the script runs once, section after section, with
\* the uploader holding upl.
Interact(ev, upl) ==
    /\ interactions < MaxInteractions
    /\ \E S1 \in {SavePhase(WidgetsPhase(StartRun(Session), ev), ev)} :
       \E vL \in LoadDraws(S1, ev) :
       \E S2 \in {LoadDeletePhase(S1, ev, vL)} :
       \E read \in UploadReads(upl) :
       \E vI \in ImportDraws(S2, read) :
       \E S3 \in {ImportPhase(S2, read, vI)} :
       \E vR \in RegenDraws(S3, ev) :
       \E T \in {MainPhase(S3, ev, vR)} :
          Becomes(T, upl, ev, interactions + 1)
    /\ UNCHANGED <<colorVars, freqVars>>

\* Lines 145-165 on the first run of a session, followed by the rest of that
\* run: no widget has a value from the user yet and the uploader is empty.
InitApp ==
    \E f \in InitialFiles, v0 \in generate_5_variations(DefaultWords) :
        LET S0 == [ac |-> DefaultConfig, saved |-> load_saved_configs(f),
                   vs |-> v0, stops |-> <<>>, disk |-> f, wl |-> <<>>,
                   msgs |-> {}, calls |-> <<>>, crashed |-> FALSE]
            T  == RunScript(S0, NoUpload, Ev("rerun", <<>>), <<>>, <<>>, <<>>)
        IN  /\ active_config = T.ac
            /\ saved_configs = T.saved
            /\ variations    = T.vs
            /\ color_stops   = T.stops
            /\ disk          = T.disk
            /\ words_list    = T.wl
            /\ messages      = T.msgs
            /\ rendered      = T.calls
            /\ crashed       = T.crashed
            /\ uploaded_file = NoUpload
            /\ event         = Ev("start", <<>>)
            /\ interactions  = 0

InitAppIdle ==
    /\ active_config = DefaultConfig
    /\ saved_configs = <<>>
    /\ variations    = <<>>
    /\ color_stops   = <<>>
    /\ disk          = AbsentFile
    /\ words_list    = <<>>
    /\ messages      = {}
    /\ rendered      = <<>>
    /\ crashed       = FALSE
    /\ uploaded_file = NoUpload
    /\ event         = Ev("start", <<>>)
    /\ interactions  = 0

\* An interaction that has no handler of its own: typing in "Config Name",
\* choosing in the selectbox.
IdleRerun == Interact(Ev("rerun", <<>>), uploaded_file)

EditColor  == \E c \in ColorInputs  : Interact(Ev("edit_color", c), uploaded_file)
EditStops  == \E n \in StopInputs   : Interact(Ev("edit_stops", n), uploaded_file)
EditWords  == \E t \in TextInputs   : Interact(Ev("edit_words", t), uploaded_file)
EditWidth  == \E w \in WidthInputs  : Interact(Ev("edit_width", w), uploaded_file)
EditHeight == \E h \in HeightInputs : Interact(Ev("edit_height", h), uploaded_file)

SaveCurrentConfig ==
    /\ Len(saved_configs) < MaxSaved
    /\ \E config_name \in NameInputs :
          Interact(Ev("save", config_name), uploaded_file)

LoadConfig ==
    \E selected_name \in Range(all_names(saved_configs)) :
        Interact(Ev("load", selected_name), uploaded_file)

DeleteConfig ==
    \E selected_name \in Range(all_names(saved_configs)) :
        Interact(Ev("delete", selected_name), uploaded_file)

UploadImport == \E f \in ImportFiles : Interact(Ev("upload", <<>>), f)

RemoveImport ==
    /\ uploaded_file.present
    /\ Interact(Ev("remove_upload", <<>>), NoUpload)

\* The button exists only where the previous run reached it with words.
Regenerate ==
    /\ ~crashed
    /\ words_list # <<>>
    /\ Interact(Ev("regenerate", <<>>), uploaded_file)

Init == InitApp /\ InitColorIdle /\ InitFreqIdle

Next ==
    \/ IdleRerun
    \/ EditColor
    \/ EditStops
    \/ EditWords
    \/ EditWidth
    \/ EditHeight
    \/ SaveCurrentConfig
    \/ LoadConfig
    \/ DeleteConfig
    \/ UploadImport
    \/ RemoveImport
    \/ Regenerate

Spec == Init /\ [][Next]_vars

\* The colour helpers on their own.
InitColor ==
    /\ hx \in HexInputs
    /\ n_in \in 2..MaxN
    /\ hx_out = NoColorCall
    /\ InitAppIdle
    /\ InitFreqIdle

NextColor == CallGenerateColorStops \/ CallRoundTrip

SpecColor == InitColor /\ [][NextColor]_vars

\* assign_varied_frequencies on its own.
InitFreq ==
    /\ fq_words \in SeqsUpTo(WordPool, MaxFreqLen)
    /\ fq_out = NoFreqCall
    /\ InitAppIdle
    /\ InitColorIdle

NextFreq == CallAssignEmpty \/ CallAssign

SpecFreq == InitFreq /\ [][NextFreq]_vars

(***************************************************************************)
(*                              PROPERTIES                                 *)
(***************************************************************************)

IsEmptyMapping(m) == DOMAIN m = {}

InRange(v, lo, hi) == lo <= v /\ v <= hi

\* C1: create_wordcloud_image is never called with an empty weight mapping:
\* a run that finds the word list empty shows the error and renders nothing,
\* and every mapping handed to a call is non-empty.
C1_NeverRendersEmptyMapping ==
    /\ (~crashed /\ words_list = <<>>) =>
          (Msg("no_words", <<>>) \in messages /\ rendered = <<>>)
    /\ \A i \in 1..Len(rendered) : ~IsEmptyMapping(rendered[i].frequencies)

\* C2: whenever a run has rendered an image, the active configuration has all
\* five fields, with the stop count in [3,10] and both dimensions in
\* [200,6000].
C2_RenderedConfigCompleteInRange ==
    rendered # <<>> =>
        /\ ConfigKeys \subseteq DOMAIN active_config
        /\ InRange(active_config.n_stops, 3, 10)
        /\ InRange(active_config.width, 200, 6000)
        /\ InRange(active_config.height, 200, 6000)

\* C3: at every render each displayed mapping has exactly the words of the
\* word list parsed by that run as its keys.
C3_RenderedKeysAreCurrentWords ==
    \A i \in 1..Len(rendered) :
        DOMAIN rendered[i].frequencies = Range(words_list)

\* C4: for every non-empty word list, duplicates allowed, the mapping
\* returned by assign_varied_frequencies has a word of weight >= 9.
C4_SomeWordIsBig ==
    (fq_out.done /\ fq_words # <<>>) =>
        \E w \in DOMAIN fq_out.freqs : fq_out.freqs[w] >= 9

\* C5: generate_color_stops(final, n) returns exactly n stops, the first
\* equal to derive_start_color(final) and the last to hex_to_rgb(final).
C5_StopsCountAndEndpoints ==
    hx_out.op = "stops" =>
        /\ Len(hx_out.stops) = n_in
        /\ hx_out.stops[1] = derive_start_color(hx)
        /\ hx_out.stops[n_in] = hex_to_rgb(hx)

C5_Witness ==
    /\ hx_out.op = "stops"
    /\ hx = DefaultColor
    /\ n_in = 3
    /\ hx_out.stops[1] = <<145, 0, 120>>
    /\ hx_out.stops[3] = <<255, 0, 211>>

\* The strings rgb_to_hex produces: one '#' and six digits, letters lowercase.
IsCanonicalHex(s) ==
    Len(s) = 7 /\ s[1] = "#" /\ \A i \in 2..7 : s[i] \in Range(LowerHex)

\* C6 as stated: rgb_to_hex(hex_to_rgb(x)) = x for every well-formed x, with
\* or without the leading '#'.
C6_RoundTripEveryWellFormed ==
    (hx_out.op = "roundtrip" /\ WellFormedHex(hx)) => hx_out.hex = hx

\* C6 as amended: rgb_to_hex(hex_to_rgb(x)) = x for every x made of one '#'
\* and six lowercase hex digits; any other well-formed x comes back in that
\* form, naming the same colour.
C6_RoundTripCanonical ==
    hx_out.op = "roundtrip" =>
        /\ IsCanonicalHex(hx_out.hex)
        /\ hex_to_rgb(hx_out.hex) = hex_to_rgb(hx)
        /\ IsCanonicalHex(hx) => hx_out.hex = hx

C6_Witness ==
    /\ hx_out.op = "roundtrip"
    /\ hx = DefaultColor
    /\ hx_out.hex = DefaultColor

\* The k-th entry, in order, of those entries of saved not named nm.
KeptEntry(saved, nm, k) ==
    LET keep == {i \in 1..Len(saved) : saved[i].name # nm}
    IN  saved[CHOOSE i \in keep : Cardinality({j \in keep : j <= i}) = k]

\* C7: a run that executes the "Delete Config" handler for name N leaves no
\* snapshot named N in the list, leaves the other snapshots in their order,
\* and leaves the file holding the list.
C7_DeleteRemovesEveryMatch ==
    [][(event'.kind = "delete" /\ Msg("deleted", event'.value) \in messages') =>
          LET nm == event'.value
          IN  /\ \A i \in 1..Len(saved_configs') : saved_configs'[i].name # nm
              /\ Len(saved_configs') =
                    Cardinality({i \in 1..Len(saved_configs) :
                                    saved_configs[i].name # nm})
              /\ \A k \in 1..Len(saved_configs') :
                    saved_configs'[k] = KeptEntry(saved_configs, nm, k)
              /\ disk' = [kind |-> "list", data |-> saved_configs']]_vars

C7_Witness ==
    /\ event = Ev("delete", <<"d">>)
    /\ Msg("deleted", <<"d">>) \in messages
    /\ saved_configs = <<EarlierStore[2]>>
    /\ disk = [kind |-> "list", data |-> <<EarlierStore[2]>>]

\* The snapshot the claim says is loaded: the earliest one named nm.
EarliestNamed(saved, nm) ==
    LET first == CHOOSE i \in 1..Len(saved) :
                    /\ saved[i].name = nm
                    /\ \A j \in 1..Len(saved) : saved[j].name = nm => i <= j
    IN  saved[first]

\* C8: a run that executes the "Load Config" handler for a name leaves the
\* active configuration that of the earliest snapshot saved under the name,
\* the gradient the stops of its colour and stop count, and the variations 5
\* mappings of its word list.
C8_LoadMakesEarliestActive ==
    [][(event'.kind = "load" /\ Msg("loaded", event'.value) \in messages') =>
          LET cfg == EarliestNamed(saved_configs, event'.value).config
          IN  /\ active_config' = cfg
              /\ color_stops' = generate_color_stops(cfg.final_color, cfg.n_stops)
              /\ variations' \in generate_5_variations(cfg.words)]_vars

BlankNames == {nm \in NameInputs : \A i \in 1..Len(nm) : nm[i] = " "}

SaveMessages ==
    {Msg("invalid_name", <<>>)} \cup {Msg("saved", nm) : nm \in NameInputs}

\* C9: a run that executes the "Save Current Config" handler with a blank
\* name shows the error and leaves the list and the file as they were; with
\* any other name it appends one snapshot at the end of the list and leaves
\* the file holding the whole list.
C9_SaveRejectsBlankName ==
    [][(event'.kind = "save" /\ messages' \cap SaveMessages # {}) =>
          IF event'.value \in BlankNames
          THEN /\ Msg("invalid_name", <<>>) \in messages'
               /\ saved_configs' = saved_configs
               /\ disk' = disk
          ELSE /\ Msg("invalid_name", <<>>) \notin messages'
               /\ Len(saved_configs') = Len(saved_configs) + 1
               /\ SubSeq(saved_configs', 1, Len(saved_configs)) = saved_configs
               /\ saved_configs'[Len(saved_configs')].name # <<>>
               /\ disk' = [kind |-> "list", data |-> saved_configs']]_vars

C9_Witness ==
    /\ event = Ev("save", <<" ">>)
    /\ Msg("invalid_name", <<>>) \in messages
    /\ Len(saved_configs) = 1
    /\ disk = [kind |-> "list", data |-> saved_configs]
    /\ interactions = 2

Distinct(ws) == \A i, j \in 1..Len(ws) : ws[i] = ws[j] => i = j

WordsWeighted(freqs, lo) ==
    Cardinality({w \in DOMAIN freqs : freqs[w] \in {lo, lo + 1}})

\* C10: for pairwise-distinct words the keys of the mapping are the words;
\* with numBig in {1,2}, min(numBig, n) words weigh 9 or 10, one word weighs
\* 5 or 6 if n > numBig and none otherwise, every other word weighs 1 or 2;
\* the empty list gives the empty mapping.
C10_ThreeTiers ==
    (fq_out.done /\ Distinct(fq_words)) =>
        LET n     == Len(fq_words)
            freqs == fq_out.freqs
            nb    == fq_out.num_big
        IN  IF n = 0 THEN IsEmptyMapping(freqs)
            ELSE /\ DOMAIN freqs = Range(fq_words)
                 /\ nb \in {1, 2}
                 /\ WordsWeighted(freqs, 9) = (IF nb < n THEN nb ELSE n)
                 /\ WordsWeighted(freqs, 5) = (IF n > nb THEN 1 ELSE 0)
                 /\ WordsWeighted(freqs, 1) =
                       n - WordsWeighted(freqs, 9) - WordsWeighted(freqs, 5)

C10_Witness ==
    /\ fq_out.done
    /\ Distinct(fq_words)
    /\ Len(fq_words) = 3
    /\ fq_out.num_big = 1
    /\ WordsWeighted(fq_out.freqs, 9) = 1
    /\ WordsWeighted(fq_out.freqs, 5) = 1
    /\ WordsWeighted(fq_out.freqs, 1) = 1

=============================================================================
